---------------------------- MODULE Spec2Model ----------------------------
(***************************************************************************)
(* Model of the text segmentation engine of the multi-tool application:    *)
(* TextProcessor.clean_text, TextProcessor.segment_text_for_audio,         *)
(* TextProcessor.split_story_into_pages and                                *)
(* TextProcessor.format_text_for_storybook                                 *)
(* (src/utils/text_processing.py), and of its two callers: the PDF to      *)
(* audio conversion (src/pdf_to_audio.py, src/utils/audio_utils.py) and    *)
(* the storybook generator (src/storybook_generator.py) with its image     *)
(* download, its image fallback chain and the cleanup of its files across  *)
(* renders.                                                                *)
(*                                                                         *)
(* A Python str is a sequence of one-character strings, so that len() is   *)
(* Len, s[i:j] is SubSeq and + is \o.  A list of str is a sequence of such *)
(* sequences.                                                              *)
(***************************************************************************)
EXTENDS Integers, Sequences, FiniteSets, TLC

VARIABLES
    op,                 \* the operation under way: "clean", "audio", "pages",
                        \* "split", "concurrent", "convert", "storybook"
    pc,                 \* position inside the operation
    text,               \* the text argument of the operation
    max_chunk_size,     \* argument of segment_text_for_audio
    sentences_per_page, \* argument of split_story_into_pages
    cleaned,            \* clean_text(text)
    recleaned,          \* clean_text(clean_text(text))
    sentences,          \* the sentence list the loop iterates over
    idx,                \* index of the next sentence of the for loop
    chunks,             \* segment_text_for_audio: chunks
    current_chunk,      \* segment_text_for_audio: current_chunk
    pages,              \* split_story_into_pages: pages
    current_page,       \* split_story_into_pages: current_page
    current_length,     \* split_story_into_pages: current_length
    raised,             \* an exception was raised inside the operation
    st_log,             \* the messages shown through st.info / st.error
    frames,             \* concurrent calls: the locals of each call
    chunk_size,         \* the "Text chunk size (characters)" slider
    tts_method,         \* the TTS method selectbox
    text_chunks,        \* convert_pdf_to_audio: text_chunks
    chunk_no,           \* convert_pdf_to_audio: i + 1 of the for loop
    tts_calls,          \* the calls made to the TTS engines, in order
    audio_segments,     \* convert_pdf_to_audio: audio_segments
    combined_audio,     \* create_audio_file_simple: combined_audio
    result_path,        \* what convert_pdf_to_audio returns
    num_pages,          \* the "Max pages (0 = full story)" number input
    use_ai,             \* the "Use AI Image Generation" checkbox
    story_pages,        \* render_interface: story_pages
    page_no,            \* render_interface: i + 1 of the image loop
    image_paths,        \* render_interface: image_paths
    story_content,      \* create_storybook_pdf: story_content
    pdf_path,           \* what create_storybook_pdf returns
    max_chars_per_line, \* argument of format_text_for_storybook
    formatted,          \* what format_text_for_storybook returns
    page_number,        \* argument of generate_ai_image
    attempt,            \* HTTP attempts generate_ai_image has made
    ai_outcomes,        \* what each HTTP attempt met, in order
    ai_files,           \* the temporary image files on disk
    image_path,         \* what generate_ai_image returns
    now,                \* time.time(), in seconds
    session_state,      \* st.session_state: its keys and their values
    disk,               \* the storybook files that exist
    generated,          \* storybooks generated so far
    previews,           \* the previews the last render displayed
    image_calls         \* the image generators called, in call order

vars == <<op, pc, text, max_chunk_size, sentences_per_page, cleaned, recleaned,
          sentences, idx, chunks, current_chunk, pages, current_page,
          current_length, raised, st_log, frames, chunk_size, tts_method,
          text_chunks, chunk_no, tts_calls, audio_segments, combined_audio,
          result_path, num_pages, use_ai, story_pages, page_no, image_paths,
          story_content, pdf_path, max_chars_per_line, formatted,
          page_number, attempt, ai_outcomes, ai_files, image_path,
          now, session_state, disk, generated, previews, image_calls>>

cleanVars == <<cleaned, recleaned>>
audioVars == <<chunks, current_chunk>>
pageVars  == <<pages, current_page, current_length>>
splitVars == <<raised, st_log>>
\* the arguments and locals of the one call of the sequential operations
segmentVars == <<op, pc, text, max_chunk_size, sentences_per_page, cleanVars,
                 sentences, idx, audioVars, pageVars>>
convertVars == <<chunk_size, tts_method, text_chunks, chunk_no, tts_calls,
                 audio_segments, combined_audio, result_path>>
bookVars  == <<num_pages, use_ai, story_pages, page_no, image_paths,
               story_content, pdf_path, image_calls>>
formatVars == <<max_chars_per_line, formatted>>
aiVars == <<page_number, attempt, ai_outcomes, ai_files, image_path>>
renderVars == <<now, session_state, disk, generated, previews>>
\* what only format_text_for_storybook, generate_ai_image and the renders
\* touch
moreVars  == <<formatVars, aiVars, renderVars>>
\* what no sequential operation touches
restVars  == <<frames, convertVars, bookVars, moreVars>>
\* what the three operations of TextProcessor never touch
extVars   == <<splitVars, restVars>>
\* what the concurrent calls never touch
notCallVars == <<segmentVars, splitVars, convertVars, bookVars, moreVars>>
\* what convert_pdf_to_audio never touches
notConvertVars == <<op, text, sentences_per_page, recleaned, sentences, idx,
                    audioVars, pageVars, frames, bookVars, moreVars>>
\* what the storybook generator never touches
notBookVars == <<op, text, max_chunk_size, sentences_per_page, cleanVars,
                 sentences, idx, audioVars, pageVars, splitVars, frames,
                 convertVars, moreVars>>

---------------------------------------------------------------------------
(* Character classes of Python's re module on str.                         *)

Upper == {"A", "B", "C", "D", "E", "F", "G", "H", "I", "J", "K", "L", "M",
          "N", "O", "P", "Q", "R", "S", "T", "U", "V", "W", "X", "Y", "Z"}

Lower == {"a", "b", "c", "d", "e", "f", "g", "h", "i", "j", "k", "l", "m",
          "n", "o", "p", "q", "r", "s", "t", "u", "v", "w", "x", "y", "z"}

Digit == {"0", "1", "2", "3", "4", "5", "6", "7", "8", "9"}

\* \s
SpaceChars == {" ", "\t", "\n", "\r", "\f"}
IsSpace(c) == c \in SpaceChars

\* [.,!?;:]
PunctChars == {".", ",", "!", "?", ";", ":"}
IsPunct(c) == c \in PunctChars

\* [A-Z]
IsUpper(c) == c \in Upper

\* \w : letters, digits and the underscore
WordChars == Upper \cup Lower \cup Digit \cup {"_"}
IsWord(c) == c \in WordChars

\* the complement of [^\w\s.,!?;:()\'"-]
AllowedChars ==
    WordChars \cup SpaceChars
        \cup {".", ",", "!", "?", ";", ":", "(", ")", "'", "\"", "-"}
IsAllowed(c) == c \in AllowedChars

\* str.lower() on one character
LowerChar(c) ==
    CASE c = "A" -> "a" [] c = "B" -> "b" [] c = "C" -> "c" [] c = "D" -> "d"
      [] c = "E" -> "e" [] c = "F" -> "f" [] c = "G" -> "g" [] c = "H" -> "h"
      [] c = "I" -> "i" [] c = "J" -> "j" [] c = "K" -> "k" [] c = "L" -> "l"
      [] c = "M" -> "m" [] c = "N" -> "n" [] c = "O" -> "o" [] c = "P" -> "p"
      [] c = "Q" -> "q" [] c = "R" -> "r" [] c = "S" -> "s" [] c = "T" -> "t"
      [] c = "U" -> "u" [] c = "V" -> "v" [] c = "W" -> "w" [] c = "X" -> "x"
      [] c = "Y" -> "y" [] c = "Z" -> "z" [] OTHER -> c

\* the sequence f written out, element by element
AsSeq(f) == f \o <<>>

\* str.lower()
ToLower(s) == AsSeq([k \in 1..Len(s) |-> LowerChar(s[k])])

---------------------------------------------------------------------------
(* String helpers.                                                         *)

\* str.strip(): lead and trail count the whitespace dropped at each end
Strip(s) ==
    IF \A k \in 1..Len(s) : IsSpace(s[k]) THEN <<>>
    ELSE LET lead  == CHOOSE d \in 0..(Len(s) - 1) :
                          /\ ~IsSpace(s[d + 1])
                          /\ \A m \in 1..d : IsSpace(s[m])
             trail == CHOOSE d \in 0..(Len(s) - 1) :
                          /\ ~IsSpace(s[Len(s) - d])
                          /\ \A m \in (Len(s) - d + 1)..Len(s) : IsSpace(s[m])
         IN  SubSeq(s, lead + 1, Len(s) - trail)

\* sub in s: sub occurs in s as a substring
Contains(s, sub) ==
    \E k \in 1..(Len(s) - Len(sub) + 1) : SubSeq(s, k, k + Len(sub) - 1) = sub

\* sep.join(parts)
RECURSIVE JoinWith(_, _)
JoinWith(parts, sep) ==
    IF Len(parts) = 0 THEN <<>>
    ELSE IF Len(parts) = 1 THEN parts[1]
    ELSE parts[1] \o sep \o JoinWith(Tail(parts), sep)

\* " ".join(parts)
Join(parts) == JoinWith(parts, <<" ">>)

\* the end of a slice s[i:j] is clamped to len(s)
Min(a, b) == IF a <= b THEN a ELSE b

\* Python's None
None == "None"

---------------------------------------------------------------------------
(* TextProcessor.clean_text, one operator per statement.                   *)

\* re.sub(r'\s+', ' ', text): every maximal whitespace run becomes one space
CollapseWhitespace(s) ==
    LET first(k) == ~(IsSpace(s[k]) /\ k > 1 /\ IsSpace(s[k - 1]))
        kept     == SelectSeq([k \in 1..Len(s) |-> k], first)
    IN  AsSeq([k \in 1..Len(kept) |->
                  IF IsSpace(s[kept[k]]) THEN " " ELSE s[kept[k]]])

\* position k of s lies in a whitespace run that ends right before a
\* character of [.,!?;:]
SpaceBeforePunct(s, k) ==
    /\ IsSpace(s[k])
    /\ \E j \in (k + 1)..Len(s) :
          /\ IsPunct(s[j])
          /\ \A m \in k..(j - 1) : IsSpace(s[m])

\* re.sub(r'\s+([.,!?;:])', r'\1', text)
FixPunctuation(s) ==
    LET keep(k) == ~SpaceBeforePunct(s, k)
        kept    == SelectSeq([k \in 1..Len(s) |-> k], keep)
    IN  AsSeq([k \in 1..Len(kept) |-> s[kept[k]]])

\* s[k] is followed by \s*[A-Z]
BeforeUpper(s, k) ==
    \E j \in (k + 1)..Len(s) :
        /\ IsUpper(s[j])
        /\ \A m \in (k + 1)..(j - 1) : IsSpace(s[m])

\* s[k] is preceded by [.,!?;:]\s*
AfterPunct(s, k) ==
    \E j \in 1..(k - 1) :
        /\ IsPunct(s[j])
        /\ \A m \in (j + 1)..(k - 1) : IsSpace(s[m])

\* re.sub(r'([.,!?;:])\s*([A-Z])', r'\1 \2', text): the whitespace between
\* the two groups is dropped and one space is written in its place.
\* Position 2k-1 of the interleaving is s[k], position 2k the space
\* written after s[k].
SpaceAfterPunct(s) ==
    LET keep(p) ==
            IF p % 2 = 1
            THEN LET k == (p + 1) \div 2
                 IN  ~(IsSpace(s[k]) /\ AfterPunct(s, k) /\ BeforeUpper(s, k))
            ELSE LET k == p \div 2
                 IN  IsPunct(s[k]) /\ BeforeUpper(s, k)
        kept == SelectSeq([p \in 1..(2 * Len(s)) |-> p], keep)
    IN  AsSeq([p \in 1..Len(kept) |->
                  IF kept[p] % 2 = 1 THEN s[(kept[p] + 1) \div 2] ELSE " "])

\* re.sub(r'[^\w\s.,!?;:()\'"-]', '', text)
RemoveSpecial(s) == SelectSeq(s, IsAllowed)

\* a variant that forgets the final strip()
clean_textNoStrip(s) ==
    RemoveSpecial(SpaceAfterPunct(FixPunctuation(CollapseWhitespace(s))))

clean_text(s) ==
    Strip(RemoveSpecial(SpaceAfterPunct(FixPunctuation(CollapseWhitespace(s)))))

---------------------------------------------------------------------------
(* nltk.tokenize.sent_tokenize, a library: modelled by its contract, a     *)
(* sentence ends at terminal punctuation followed by whitespace and a      *)
(* capital; the sentences are trimmed and in order, none is empty.         *)

TerminalChars == {".", "!", "?"}
IsTerminal(c) == c \in TerminalChars

\* the positions of s that end a sentence
SentenceEnds(s) ==
    {k \in 1..Len(s) :
        \/ k = Len(s)
        \/ /\ IsTerminal(s[k])
           /\ \E j \in (k + 2)..Len(s) :
                 /\ IsUpper(s[j])
                 /\ \A m \in (k + 1)..(j - 1) : IsSpace(s[m])}

sent_tokenize(s) ==
    LET ends     == SentenceEnds(s)
        nth(n)   == CHOOSE e \in ends : Cardinality({x \in ends : x <= e}) = n
        start(n) == IF n = 1 THEN 1 ELSE nth(n - 1) + 1
        pieces   == [n \in 1..Cardinality(ends) |->
                        Strip(SubSeq(s, start(n), nth(n)))]
    IN  SelectSeq(pieces, LAMBDA piece : piece # <<>>)

---------------------------------------------------------------------------
(* TextProcessor.segment_text_for_audio                                    *)

\* a variant that forgets the sentence: if len(current_chunk) > max_chunk_size
StartsNewChunkByChunkOnly(chunk, sentence, limit) ==
    Len(chunk) > limit /\ chunk # <<>>

\* a variant that closes at the limit: >= max_chunk_size
StartsNewChunkAtLimit(chunk, sentence, limit) ==
    Len(chunk \o sentence) >= limit /\ chunk # <<>>

\* if len(current_chunk + sentence) > max_chunk_size and current_chunk:
StartsNewChunk(chunk, sentence, limit) ==
    Len(chunk \o sentence) > limit /\ chunk # <<>>

\* a variant that forgets the separator: current_chunk += sentence
ExtendedNoSeparator(chunk, sentence) == chunk \o sentence

\* current_chunk += " " + sentence if current_chunk else sentence
Extended(chunk, sentence) ==
    IF chunk # <<>> THEN chunk \o <<" ">> \o sentence ELSE sentence

\* a variant that appends the last chunk without the test for content
WithLastChunkAlways(done, chunk) == Append(done, Strip(chunk))

\* if current_chunk.strip(): chunks.append(current_chunk.strip())
WithLastChunk(done, chunk) ==
    IF Strip(chunk) # <<>> THEN Append(done, Strip(chunk)) ELSE done

\* one iteration of the for loop, lines 90-96
AudioStep(st, sentence, limit) ==
    IF StartsNewChunk(st.current_chunk, sentence, limit)
    THEN [chunks |-> Append(st.chunks, Strip(st.current_chunk)),
          current_chunk |-> sentence]
    ELSE [chunks |-> st.chunks,
          current_chunk |-> Extended(st.current_chunk, sentence)]

\* the for loop over the sentences from sents[i] on
RECURSIVE AudioLoop(_, _, _, _)
AudioLoop(st, sents, i, limit) ==
    IF i > Len(sents) THEN st
    ELSE AudioLoop(AudioStep(st, sents[i], limit), sents, i + 1, limit)

\* the whole call, given the sentence list of line 86
ChunksOf(sents, limit) ==
    LET st == AudioLoop([chunks |-> <<>>, current_chunk |-> <<>>], sents, 1,
                        limit)
    IN  WithLastChunk(st.chunks, st.current_chunk)

segment_text_for_audio(t, limit) == ChunksOf(sent_tokenize(t), limit)

---------------------------------------------------------------------------
(* PDFToAudioConverter.split_text_into_chunks (src/pdf_to_audio.py)        *)

\* a variant of the fallback that keeps the full windows only
FixedWidthFullOnly(t, size) ==
    AsSeq([k \in 1..(Len(t) \div size) |->
              SubSeq(t, (k - 1) * size + 1, k * size)])

\* [text[i:i+chunk_size] for i in range(0, len(text), chunk_size)]
FixedWidth(t, size) ==
    AsSeq([k \in 1..((Len(t) + size - 1) \div size) |->
              SubSeq(t, (k - 1) * size + 1, Min(k * size, Len(t)))])

\* the messages of st.info (line 53) and st.error (line 56)
SegmentedInfo == [level |-> "info", message |-> "Text segmented into chunks"]
SplitError ==
    [level |-> "error", message |-> "Error splitting text into chunks"]

---------------------------------------------------------------------------
(* PDFToAudioConverter.convert_pdf_to_audio (src/pdf_to_audio.py) and      *)
(* AudioProcessor.create_audio_file_simple (src/utils/audio_utils.py).     *)
(* The audio of a chunk is the one-element sequence of the chunk's number, *)
(* and + on audio is concatenation.                                        *)

MinTextLength == 10
DefaultChunkSize == 500
SliderMin == 200
SliderMax == 1000
SliderStep == 100

\* the values of the chunk size slider
ChunkSizes ==
    {n \in SliderMin..SliderMax : (n - SliderMin) % SliderStep = 0}

\* the options of the TTS method selectbox
TTSMethods ==
    {"Simple Reliable (Always Works)", "Auto (Best Available)",
     "pyttsx3 (Offline)", "gTTS (Online)", "Tone Generation (Basic)"}

\* the engine the if/elif chain of lines 91-109 calls first
FirstEngine(method) ==
    IF method \in {"pyttsx3 (Offline)", "Auto (Best Available)"}
        THEN "text_to_speech_enhanced_pyttsx3"
    ELSE IF method = "Simple Reliable (Always Works)"
        THEN "text_to_speech_simple_reliable"
    ELSE IF method = "gTTS (Online)" THEN "text_to_speech_enhanced_gtts"
    ELSE "text_to_speech_simple_tones"

\* what a TTS engine can hand back: an AudioSegment, the path of a file
\* that loads, the path of a file that does not load, another true value,
\* a false value (None, an AudioSegment of no length)
TTSOutcomes == {"segment", "file", "unreadable file", "invalid", "nothing"}

\* extract_text_from_pdf on a PDF whose text is raw, lines 29-41
ExtractedText(raw) ==
    IF Len(Strip(raw)) < MinTextLength THEN <<>>
    ELSE LET cleaned_text == clean_text(raw)
         IN  IF Len(Strip(cleaned_text)) < MinTextLength THEN <<>>
             ELSE cleaned_text

\* one call of a TTS engine
TTSCall(engine, n, chunk) == [engine |-> engine, chunk_no |-> n, text |-> chunk]

\* the calls of one loop iteration, lines 89-115: the chosen engine, then
\* pyttsx3 when the chosen engine handed back a false value
CallsFor(method, n, chunk, first) ==
    IF first = "nothing"
    THEN <<TTSCall(FirstEngine(method), n, chunk),
           TTSCall("text_to_speech_enhanced_pyttsx3", n, chunk)>>
    ELSE <<TTSCall(FirstEngine(method), n, chunk)>>

\* a variant that puts a segment in the list for every chunk
WithSegmentAlways(segments, n, outcome) == Append(segments, <<n>>)

\* the st.error of a chunk that is skipped, lines 127, 130, 133
ChunkErrors(n, outcome) ==
    CASE outcome = "nothing" ->
           <<[level |-> "error",
              message |-> "All TTS methods failed for chunk " \o ToString(n)]>>
      [] outcome = "unreadable file" ->
           <<[level |-> "error",
              message |-> "Chunk " \o ToString(n)
                             \o " failed to load audio from file"]>>
      [] outcome = "invalid" ->
           <<[level |-> "error",
              message |-> "Chunk " \o ToString(n)
                             \o " returned invalid audio type"]>>
      [] OTHER -> <<>>

\* the st.error of lines 68, 140 and 166
ExtractError ==
    [level |-> "error", message |-> "Failed to extract text from PDF"]
NoAudioError ==
    [level |-> "error", message |-> "Failed to convert any text chunks to audio"]
CreateError ==
    [level |-> "error", message |-> "Failed to create audio file"]

\* lines 118-133: the segment is appended, or the chunk is skipped
WithSegment(segments, n, outcome) ==
    IF outcome \in {"segment", "file"} THEN Append(segments, <<n>>)
    ELSE segments

\* a variant that starts with the first segment and then adds all of them
CombinedFirstTwice(valid_segments) ==
    valid_segments[1] \o JoinWith(valid_segments, <<>>)

\* create_audio_file_simple, lines 1365-1369: valid_segments[0], then + each
\* of valid_segments[1:]
Combined(valid_segments) == JoinWith(valid_segments, <<>>)

---------------------------------------------------------------------------
(* TextProcessor.split_story_into_pages                                    *)

PageSentenceLimit == 4
PageLengthLimit == 300
PageBreakLength == 200

DiscourseMarkers ==
    { <<"b", "u", "t">>,
      <<"h", "o", "w", "e", "v", "e", "r">>,
      <<"t", "h", "e", "n">>,
      <<"s", "o">>,
      <<"a", "n", "d">>,
      <<"o", "r">>,
      <<"f", "i", "n", "a", "l", "l", "y">>,
      <<"s", "u", "d", "d", "e", "n", "l", "y">> }

\* any(word in last_sentence for word in [...])
HasMarker(sentence) ==
    LET last_sentence == ToLower(sentence)
    IN  \E word \in DiscourseMarkers : Contains(last_sentence, word)

\* a variant without the sentence count rule
ShouldNewPageNoCount(page, length, sentence, hint) ==
    IF length > PageLengthLimit /\ Len(page) >= 2 THEN TRUE
    ELSE IF Len(page) >= 3 /\ length > PageBreakLength THEN HasMarker(sentence)
    ELSE FALSE

\* a variant whose length rule does not ask for 2 sentences
ShouldNewPageAnyLength(page, length, sentence, hint) ==
    IF Len(page) >= PageSentenceLimit THEN TRUE
    ELSE IF length > PageLengthLimit THEN TRUE
    ELSE IF Len(page) >= 3 /\ length > PageBreakLength THEN HasMarker(sentence)
    ELSE FALSE

\* a variant that closes a page at sentences_per_page sentences
ShouldNewPageByHint(page, length, sentence, hint) ==
    IF Len(page) >= hint THEN TRUE
    ELSE IF length > PageLengthLimit /\ Len(page) >= 2 THEN TRUE
    ELSE IF Len(page) >= 3 /\ length > PageBreakLength THEN HasMarker(sentence)
    ELSE FALSE

\* a variant that closes a page at 3 sentences already
ShouldNewPageAtThree(page, length, sentence, hint) ==
    IF Len(page) >= 3 THEN TRUE
    ELSE IF length > PageLengthLimit /\ Len(page) >= 2 THEN TRUE
    ELSE FALSE

\* a variant whose length rule asks for 3 sentences
ShouldNewPageLengthAtThree(page, length, sentence, hint) ==
    IF Len(page) >= PageSentenceLimit THEN TRUE
    ELSE IF length > PageLengthLimit /\ Len(page) >= 3 THEN TRUE
    ELSE IF Len(page) >= 3 /\ length > PageBreakLength THEN HasMarker(sentence)
    ELSE FALSE

\* a variant that looks for a marker in every sentence of the page
ShouldNewPageMarkerAnywhere(page, length, sentence, hint) ==
    IF Len(page) >= PageSentenceLimit THEN TRUE
    ELSE IF length > PageLengthLimit /\ Len(page) >= 2 THEN TRUE
    ELSE IF Len(page) >= 3 /\ length > PageBreakLength
        THEN \E k \in 1..Len(page) : HasMarker(page[k])
    ELSE FALSE

\* should_new_page after sentence was appended: page is current_page and
\* length is current_length; hint is sentences_per_page
ShouldNewPage(page, length, sentence, hint) ==
    IF Len(page) >= PageSentenceLimit THEN TRUE
    ELSE IF length > PageLengthLimit /\ Len(page) >= 2 THEN TRUE
    ELSE IF Len(page) >= 3 /\ length > PageBreakLength THEN HasMarker(sentence)
    ELSE FALSE

\* a variant that counts the separating space in current_length
PageStepCountingSpaces(st, sentence, hint) ==
    LET page   == Append(st.current_page, sentence)
        length == st.current_length + Len(sentence)
                      + (IF st.current_page # <<>> THEN 1 ELSE 0)
    IN  IF ShouldNewPage(page, length, sentence, hint)
        THEN [pages          |-> Append(st.pages, Join(page)),
              current_page   |-> <<>>,
              current_length |-> 0]
        ELSE [pages          |-> st.pages,
              current_page   |-> page,
              current_length |-> length]

\* one iteration of the for loop on the record st of pages, current_page
\* and current_length
PageStep(st, sentence, hint) ==
    LET page   == Append(st.current_page, sentence)
        length == st.current_length + Len(sentence)
    IN  IF ShouldNewPage(page, length, sentence, hint)
        THEN [pages          |-> Append(st.pages, Join(page)),
              current_page   |-> <<>>,
              current_length |-> 0]
        ELSE [pages          |-> st.pages,
              current_page   |-> page,
              current_length |-> length]

\* a variant that forgets the sentences left after the loop
WithLastPageDropped(done, page) == done

\* a variant that keeps the sentences left only when they are several
WithLastPageIfSeveral(done, page) ==
    IF Len(page) >= 2 THEN Append(done, Join(page)) ELSE done

\* if current_page: pages.append(" ".join(current_page))
WithLastPage(done, page) ==
    IF page # <<>> THEN Append(done, Join(page)) ELSE done

\* sentences = [s.strip() for s in sent_tokenize(clean_text(story_text))
\*              if s.strip()]
StorySentences(story_text) ==
    LET split    == sent_tokenize(clean_text(story_text))
        stripped == [k \in 1..Len(split) |-> Strip(split[k])]
    IN  SelectSeq(stripped, LAMBDA piece : piece # <<>>)

RECURSIVE PageLoop(_, _, _, _)
PageLoop(st, sents, k, hint) ==
    IF k > Len(sents) THEN st
    ELSE PageLoop(PageStep(st, sents[k], hint), sents, k + 1, hint)

\* the whole call, as a function of its arguments
split_story_into_pages(story_text, hint) ==
    LET st == PageLoop([pages |-> <<>>, current_page |-> <<>>,
                        current_length |-> 0],
                       StorySentences(story_text), 1, hint)
    IN  WithLastPage(st.pages, st.current_page)

---------------------------------------------------------------------------
(* TextProcessor.format_text_for_storybook                                 *)

\* text.split()
Words(t) ==
    LET at     == AsSeq([k \in 1..Len(t) |-> k])
        starts == SelectSeq(at, LAMBDA k :
                      ~IsSpace(t[k]) /\ (k = 1 \/ IsSpace(t[k - 1])))
        ends   == SelectSeq(at, LAMBDA k :
                      ~IsSpace(t[k]) /\ (k = Len(t) \/ IsSpace(t[k + 1])))
    IN  AsSeq([n \in 1..Len(starts) |-> SubSeq(t, starts[n], ends[n])])

\* a variant whose test leaves out the separating space
WrapStepNoSpace(st, word, max_chars) ==
    IF Len(st.current_line \o word) <= max_chars
    THEN [lines |-> st.lines,
          current_line |-> IF st.current_line # <<>>
                           THEN st.current_line \o <<" ">> \o word
                           ELSE word]
    ELSE [lines |-> IF st.current_line # <<>>
                    THEN Append(st.lines, st.current_line)
                    ELSE st.lines,
          current_line |-> word]

\* one iteration of the for loop, lines 134-140
WrapStep(st, word, max_chars) ==
    IF Len(st.current_line \o <<" ">> \o word) <= max_chars
    THEN [lines |-> st.lines,
          current_line |-> IF st.current_line # <<>>
                           THEN st.current_line \o <<" ">> \o word
                           ELSE word]
    ELSE [lines |-> IF st.current_line # <<>>
                    THEN Append(st.lines, st.current_line)
                    ELSE st.lines,
          current_line |-> word]

RECURSIVE WrapLoop(_, _, _, _)
WrapLoop(st, words, k, max_chars) ==
    IF k > Len(words) THEN st
    ELSE WrapLoop(WrapStep(st, words[k], max_chars), words, k + 1,
                  max_chars)

format_text_for_storybook(t, max_chars) ==
    LET st    == WrapLoop([lines |-> <<>>, current_line |-> <<>>], Words(t), 1,
                          max_chars)
        lines == IF st.current_line # <<>>
                 THEN Append(st.lines, st.current_line)
                 ELSE st.lines
    IN  JoinWith(lines, <<"\n">>)

---------------------------------------------------------------------------
(* StorybookGenerator: the "Generate Storybook" handler of                 *)
(* render_interface and create_storybook_pdf (src/storybook_generator.py). *)

MaxCharsPerLine == 80

\* the file a generator writes for a page
ImagePath(generator, page_num) ==
    generator \o "_page_" \o ToString(page_num) \o ".png"

\* lines 789-793: at most num_pages // 2 pages when num_pages > 0
Limited(all_pages, limit) ==
    IF limit > 0 /\ Len(all_pages) > limit \div 2
    THEN SubSeq(all_pages, 1, limit \div 2)
    ELSE all_pages

\* lines 808-838: the AI image when enabled and made, else the placeholder,
\* else the basic fallback image, else None
ImageFor(page_num, ai, ai_made, placeholder_made, basic_made) ==
    IF ai /\ ai_made THEN ImagePath("ai_generated", page_num)
    ELSE IF placeholder_made THEN ImagePath("placeholder", page_num)
    ELSE IF basic_made THEN ImagePath("basic_fallback", page_num)
    ELSE None

\* one call of an image generator for a page; made tells whether it
\* returned the path of an existing file (it raised or returned nothing
\* otherwise)
ImageCall(generator, page_num, made) ==
    [generator |-> generator, page |-> page_num, made |-> made]

\* a variant that generates the placeholder whatever the AI stage gave
ImageCallsPlaceholderAlways(page_num, ai, ai_made, placeholder_made, basic_made) ==
    (IF ai THEN <<ImageCall("generate_ai_image", page_num, ai_made)>>
     ELSE <<>>)
    \o <<ImageCall("generate_placeholder_image", page_num, placeholder_made)>>
    \o (IF placeholder_made THEN <<>>
        ELSE <<ImageCall("_create_basic_fallback_image", page_num, basic_made)>>)

\* lines 809-839: the generators one iteration calls, in order
ImageCalls(page_num, ai, ai_made, placeholder_made, basic_made) ==
    (IF ai THEN <<ImageCall("generate_ai_image", page_num, ai_made)>>
     ELSE <<>>)
    \o (IF ai /\ ai_made THEN <<>>
        ELSE <<ImageCall("generate_placeholder_image", page_num,
                         placeholder_made)>>
             \o (IF placeholder_made THEN <<>>
                 ELSE <<ImageCall("_create_basic_fallback_image", page_num,
                                  basic_made)>>))

\* a variant that appends nothing for a page without image
WithImagePathIfAny(paths, img_path) ==
    IF img_path # None THEN Append(paths, img_path) ELSE paths

\* lines 841-846: the path, or None, is appended
WithImagePath(paths, img_path) == Append(paths, img_path)

\* the flowables of the PDF
TitleFlowable == [kind |-> "title"]
SpacerFlowable == [kind |-> "spacer"]
ImageFlowable(img_path) == [kind |-> "image", path |-> img_path]
TextFlowable(formatted_text) == [kind |-> "text", text |-> formatted_text]

\* create_storybook_pdf, lines 374-386: the flowables of one page
PageFlowables(page_text, img_path) ==
    (IF img_path # None
     THEN <<ImageFlowable(img_path), SpacerFlowable>>
     ELSE <<>>)
    \o <<TextFlowable(format_text_for_storybook(page_text, MaxCharsPerLine)),
         SpacerFlowable>>

\* create_storybook_pdf, lines 366-386: the title page, then the pages of
\* zip(story_pages, image_paths)
StoryContent(texts, paths) ==
    <<TitleFlowable, SpacerFlowable>>
    \o JoinWith(AsSeq([k \in 1..Min(Len(texts), Len(paths)) |->
                          PageFlowables(texts[k], paths[k])]), <<>>)

---------------------------------------------------------------------------
(* StorybookGenerator.generate_ai_image                                    *)
(***************************************************************************)
max_retries == 3

\* what one pass of the retry loop can meet: the image is downloaded,
\* verified and resized; the status is not 200; requests.get times out;
\* requests.get raises something else; writing the file raises after open()
\* created it; Image.open, verify, resize or save raises
AiOutcomes ==
    {"image", "status", "timeout", "exception", "write error", "invalid image"}

\* tempfile.mktemp gives one fresh name per pass, line 81
TempPath(page_num, n) ==
    "tmp" \o ToString(n) \o "_ai_page_" \o ToString(page_num) \o ".png"

\* the st.error of the last pass, lines 112, 120, 128
AiError(outcome) ==
    [level |-> "error",
     message |-> CASE outcome = "status" -> "Failed to generate AI image: HTTP"
                   [] outcome = "timeout" -> "AI image generation timed out"
                   [] OTHER -> "AI image generation error"]

\* a variant that leaves the file of an unusable image on disk
FilesAfterKeepingInvalid(files, path, outcome) ==
    IF outcome \in {"image", "write error", "invalid image"}
    THEN files \cup {path}
    ELSE files

\* the files on disk after a pass: lines 82-83 write the file, lines 99-100
\* remove it when the image is not usable
FilesAfter(files, path, outcome) ==
    IF outcome \in {"image", "write error"}
    THEN files \cup {path}
    ELSE files

(***************************************************************************)
(* StorybookGenerator.render_interface across reruns of the script with    *)
(* "Text Input": the cleanup of lines 413-425, the preview of the stored   *)
(* storybook of lines 613-704 and the "Generate Storybook" handler of      *)
(* lines 764-943.  st.session_state is a function from the keys that are   *)
(* present to their values.                                                *)
(***************************************************************************)
CleanupDelay == 30

Has(state, key) == key \in DOMAIN state
Without(state, key) == [k \in DOMAIN state \ {key} |-> state[k]]
With(state, key, value) == [k \in DOMAIN state \cup {key} |->
                              IF k = key THEN value ELSE state[k]]

\* the files a storybook or a cleanup entry names
FilesOf(data) ==
    {data.pdf_path}
        \cup {data.image_paths[k] : k \in {j \in 1..Len(data.image_paths) :
                                              data.image_paths[j] # None}}

\* lines 414-425: the files of cleanup_files are removed once the time is
\* past cleanup_time, and the key is deleted
CleanupDue(state, t) ==
    /\ Has(state, "cleanup_files")
    /\ t > state["cleanup_files"].cleanup_time
DiskAfterCleanup(state, files, t) ==
    IF CleanupDue(state, t)
    THEN files \ FilesOf(state["cleanup_files"]) ELSE files
StateAfterCleanup(state, t) ==
    IF CleanupDue(state, t) THEN Without(state, "cleanup_files") ELSE state

\* lines 624-688 and 869-927: the preview of a storybook, with the files
\* that os.path.exists finds (lines 40 and 655)
Preview(data, files) ==
    [pdf_path |-> data.pdf_path, image_paths |-> data.image_paths,
     existing |-> FilesOf(data) \cap files]

\* lines 700-704 and 939-943
CleanupEntry(data, t) ==
    [pdf_path |-> data.pdf_path, image_paths |-> data.image_paths,
     cleanup_time |-> t + CleanupDelay]

\* the files of the n-th generation: tempfile names, one story page
BookPdfPath(n) == "storybook_" \o ToString(n) \o ".pdf"
BookImagePath(n) == "tmp" \o ToString(n) \o "_page_1.png"
BookData(n, with_image) ==
    [pdf_path |-> BookPdfPath(n),
     image_paths |-> <<IF with_image THEN BookImagePath(n) ELSE None>>]

(***************************************************************************)
(* Concurrent calls of segment_text_for_audio and split_story_into_pages:  *)
(* each call has a frame with its arguments (fn, text, arg) and its        *)
(* locals; the two functions are static methods that name no global.       *)

Calls == {1, 2}

\* the frame of a call that has not started
NewFrame(fn, t, arg) ==
    [fn |-> fn, text |-> t, arg |-> arg, pc |-> "call", sentences |-> <<>>,
     idx |-> 0, chunks |-> <<>>, current_chunk |-> <<>>, pages |-> <<>>,
     current_page |-> <<>>, current_length |-> 0]

\* lines 86-88 and lines 154-164
FrameCall(f) ==
    [f EXCEPT !.sentences = IF f.fn = "audio" THEN sent_tokenize(f.text)
                            ELSE StorySentences(f.text),
              !.idx = 1,
              !.pc = "loop"]

\* one iteration of the for loop, lines 90-96 and lines 166-195
FrameIter(f) ==
    IF f.fn = "audio"
    THEN LET st == AudioStep([chunks |-> f.chunks,
                              current_chunk |-> f.current_chunk],
                             f.sentences[f.idx], f.arg)
         IN  [f EXCEPT !.chunks = st.chunks,
                       !.current_chunk = st.current_chunk,
                       !.idx = f.idx + 1]
    ELSE LET st == PageStep([pages |-> f.pages,
                             current_page |-> f.current_page,
                             current_length |-> f.current_length],
                            f.sentences[f.idx], f.arg)
         IN  [f EXCEPT !.pages = st.pages,
                       !.current_page = st.current_page,
                       !.current_length = st.current_length,
                       !.idx = f.idx + 1]

\* lines 98-102 and lines 197-202
FrameReturn(f) ==
    IF f.fn = "audio"
    THEN [f EXCEPT !.chunks = WithLastChunk(f.chunks, f.current_chunk),
                   !.pc = "done"]
    ELSE [f EXCEPT !.pages = WithLastPage(f.pages, f.current_page),
                   !.pc = "done"]

\* a variant in which current_chunk, current_page and current_length are
\* globals of the module, written by every call
StoreFrameGlobalBuffers(fs, c, f) ==
    [k \in DOMAIN fs |->
        IF k = c THEN f
        ELSE [fs[k] EXCEPT !.current_chunk = f.current_chunk,
                           !.current_page = f.current_page,
                           !.current_length = f.current_length]]

\* a step of call c assigns to the locals of call c only
StoreFrame(fs, c, f) == [fs EXCEPT ![c] = f]

---------------------------------------------------------------------------
(* Inputs.                                                                 *)

\* all sequences over S of length at most n
SeqsUpTo(S, n) == UNION {[1..k -> S] : k \in 0..n}

\* clean_text: every string over CleanAlphabet of at most MaxTextLen
\* characters
MaxTextLen == 5
CleanAlphabet == {" ", "\n", ".", "A", "a", "#", "_"}

\* segment_text_for_audio: texts of at most MaxAudioSentences sentences
\* and budgets 1..MaxChunkSize
MaxAudioSentences == 4
MaxChunkSize == 8
AudioPalette ==
    { <<"A", ".">>,
      <<"B", "b", "!">>,
      <<"C", "c", " ", "d", "d", "?">> }
AudioTexts == {Join(ss) : ss \in SeqsUpTo(AudioPalette, MaxAudioSentences)}

\* split_story_into_pages: stories of at most MaxStorySentences lines, one
\* sentence a line
MaxStorySentences == 5
Filler(n) == AsSeq([k \in 1..n |-> "x"])
StoryPalette ==
    { <<"A", "L", "S", "O", "*", " ", "!">>,  \* "ALSO!" once cleaned: 5
                                              \* characters, marker "so"
      <<"M">> \o Filler(98) \o <<".">>,       \* 100 characters, no marker
      <<"L">> \o Filler(299) \o <<".">> }     \* 301 characters, no marker
StoryTexts ==
    {JoinWith(ss, <<"\n">>) : ss \in SeqsUpTo(StoryPalette, MaxStorySentences)}

\* the ends of the "Sentences per page" slider
SentencesPerPageHints == {2, 5}

\* convert_pdf_to_audio: the text of the PDF, of at most MaxPdfSentences
\* lines, one sentence a line
MaxPdfSentences == 3
PdfPalette ==
    { <<"M">> \o Filler(98) \o <<".">>,       \* 100 characters
      <<"L">> \o Filler(299) \o <<".">> }     \* 301 characters
\* positions of the chunk size slider that are tried: both ends and the
\* default
SliderChoices == ChunkSizes \cap {SliderMin, DefaultChunkSize, SliderMax}
PdfTexts ==
    {JoinWith(ss, <<"\n">>) : ss \in SeqsUpTo(PdfPalette, MaxPdfSentences)}

\* format_text_for_storybook: texts of at most MaxFormatTokens words and
\* separators, lines of at most MaxLineChars characters
MaxFormatTokens == 5
MaxLineChars == 4
FormatPalette == {<<" ">>, <<"\n">>, <<"a">>, <<"b", "b">>,
                  <<"a", "b", "a", "b", "a">>}
FormatTexts ==
    {JoinWith(tokens, <<>>) : tokens \in SeqsUpTo(FormatPalette, MaxFormatTokens)}

\* renders of the storybook page: the clock stops at MaxTime seconds and at
\* most MaxGenerations storybooks are generated
MaxTime == 32
MaxGenerations == 2

\* the storybook: stories of at most MaxBookSentences lines, one sentence a
\* line, and a story that cleaning leaves empty
MaxBookSentences == 4
BookPalette ==
    { <<"A", "L", "S", "O", "*", " ", "!">>,  \* "ALSO!" once cleaned
      <<"L">> \o Filler(299) \o <<".">> }     \* 301 characters
BookTexts ==
    ({JoinWith(ss, <<"\n">>) : ss \in SeqsUpTo(BookPalette, MaxBookSentences)}
        \ {<<>>}) \cup {<<"*">>}
\* values of the "Max pages" number input: the full story, no page, one page
NumPagesChoices == {0, 1, 2}

\* concurrent calls: texts of at most MaxConcSentences copies of a sentence
MaxConcSentences == 5
Copies(sentence, n) == AsSeq([k \in 1..n |-> sentence])
ConcAudioInputs ==
    {NewFrame("audio", Join(Copies(s, n)), limit) :
        s \in AudioPalette, n \in 0..MaxConcSentences,
        limit \in {MaxChunkSize \div 2, MaxChunkSize}}
ConcPagesInputs ==
    {NewFrame("pages", JoinWith(Copies(s, n), <<"\n">>), hint) :
        s \in {<<"A", "L", "S", "O", "*", " ", "!">>, <<"B", "b", ".">>},
        n \in 0..MaxConcSentences, hint \in SentencesPerPageHints}

---------------------------------------------------------------------------
(* The state machine.                                                      *)

\* before the call: no local of any operation holds anything
IdleLocals ==
    /\ pc = "call"
    /\ cleaned = <<>>
    /\ recleaned = <<>>
    /\ sentences = <<>>
    /\ idx = 0
    /\ chunks = <<>>
    /\ current_chunk = <<>>
    /\ pages = <<>>
    /\ current_page = <<>>
    /\ current_length = 0
    /\ raised = FALSE
    /\ st_log = <<>>

\* no concurrent call
NoCalls == frames = <<>>

\* no conversion under way
NoConvert ==
    /\ chunk_size = 0
    /\ tts_method = None
    /\ text_chunks = <<>>
    /\ chunk_no = 0
    /\ tts_calls = <<>>
    /\ audio_segments = <<>>
    /\ combined_audio = <<>>
    /\ result_path = None

\* no storybook under way
NoBook ==
    /\ num_pages = 0
    /\ use_ai = FALSE
    /\ story_pages = <<>>
    /\ page_no = 0
    /\ image_paths = <<>>
    /\ story_content = <<>>
    /\ pdf_path = None
    /\ image_calls = <<>>

\* no call of format_text_for_storybook
NoFormat ==
    /\ max_chars_per_line = 0
    /\ formatted = <<>>

\* no call of generate_ai_image
NoAi ==
    /\ page_number = 0
    /\ attempt = 0
    /\ ai_outcomes = <<>>
    /\ ai_files = {}
    /\ image_path = None

\* a fresh session that has rendered nothing
NoRender ==
    /\ now = 0
    /\ session_state = <<>>
    /\ disk = {}
    /\ generated = 0
    /\ previews = <<>>

NoMore == NoFormat /\ NoAi /\ NoRender

Idle == IdleLocals /\ NoCalls /\ NoConvert /\ NoBook /\ NoMore

\* clean_text(text), then clean_text of the result
CleanCall ==
    /\ op = "clean" /\ pc = "call"
    /\ cleaned' = clean_text(text)
    /\ pc' = "cleaned"
    /\ UNCHANGED <<extVars, op, text, max_chunk_size, sentences_per_page, recleaned,
                   sentences, idx, audioVars, pageVars>>

CleanAgain ==
    /\ op = "clean" /\ pc = "cleaned"
    /\ recleaned' = clean_text(cleaned)
    /\ pc' = "done"
    /\ UNCHANGED <<extVars, op, text, max_chunk_size, sentences_per_page, cleaned,
                   sentences, idx, audioVars, pageVars>>

\* segment_text_for_audio, lines 85-88
AudioCall ==
    /\ op = "audio" /\ pc = "call"
    /\ sentences' = sent_tokenize(text)
    /\ chunks' = <<>>
    /\ current_chunk' = <<>>
    /\ idx' = 1
    /\ pc' = "loop"
    /\ UNCHANGED <<extVars, op, text, max_chunk_size, sentences_per_page, cleanVars,
                   pageVars>>

\* segment_text_for_audio, one iteration of the for loop, lines 90-96
AudioIter ==
    /\ op = "audio" /\ pc = "loop"
    /\ idx <= Len(sentences)
    /\ LET sentence == sentences[idx]
       IN  IF StartsNewChunk(current_chunk, sentence, max_chunk_size)
           THEN /\ chunks' = Append(chunks, Strip(current_chunk))
                /\ current_chunk' = sentence
           ELSE /\ chunks' = chunks
                /\ current_chunk' = Extended(current_chunk, sentence)
    /\ idx' = idx + 1
    /\ UNCHANGED <<extVars, op, pc, text, max_chunk_size, sentences_per_page, cleanVars,
                   sentences, pageVars>>

\* segment_text_for_audio, lines 98-102
AudioReturn ==
    /\ op = "audio" /\ pc = "loop"
    /\ idx > Len(sentences)
    /\ chunks' = WithLastChunk(chunks, current_chunk)
    /\ pc' = "done"
    /\ UNCHANGED <<extVars, op, text, max_chunk_size, sentences_per_page, cleanVars,
                   sentences, idx, current_chunk, pageVars>>

\* split_story_into_pages, lines 153-164
PagesCall ==
    /\ op = "pages" /\ pc = "call"
    /\ sentences' = StorySentences(text)
    /\ pages' = <<>>
    /\ current_page' = <<>>
    /\ current_length' = 0
    /\ idx' = 1
    /\ pc' = "loop"
    /\ UNCHANGED <<extVars, op, text, max_chunk_size, sentences_per_page, cleanVars,
                   audioVars>>

\* split_story_into_pages, one iteration of the for loop, lines 166-195
PagesIter ==
    /\ op = "pages" /\ pc = "loop"
    /\ idx <= Len(sentences)
    /\ LET st == PageStep([pages |-> pages, current_page |-> current_page,
                           current_length |-> current_length],
                          sentences[idx], sentences_per_page)
       IN  /\ pages' = st.pages
           /\ current_page' = st.current_page
           /\ current_length' = st.current_length
    /\ idx' = idx + 1
    /\ UNCHANGED <<extVars, op, pc, text, max_chunk_size, sentences_per_page, cleanVars,
                   sentences, audioVars>>

\* split_story_into_pages, lines 197-202
PagesReturn ==
    /\ op = "pages" /\ pc = "loop"
    /\ idx > Len(sentences)
    /\ pages' = WithLastPage(pages, current_page)
    /\ pc' = "done"
    /\ UNCHANGED <<extVars, op, text, max_chunk_size, sentences_per_page, cleanVars,
                   sentences, idx, audioVars, current_page, current_length>>

\* a variant in which the paginator catches the failure and returns
\* fixed-width pages, as split_text_into_chunks does for the chunks
PagesRaiseWithFallback ==
    /\ op = "pages" /\ pc = "call"
    /\ raised' = TRUE
    /\ pages' = FixedWidth(text, PageLengthLimit)
    /\ pc' = "done"
    /\ UNCHANGED <<op, text, max_chunk_size, sentences_per_page, cleanVars,
                   sentences, idx, audioVars, current_page, current_length,
                   st_log, restVars>>

\* split_story_into_pages, lines 154-157: clean_text or sent_tokenize raises;
\* no try statement encloses them, here or in generate_story_pages, so the
\* call ends with the exception and returns nothing
PagesRaise ==
    /\ op = "pages" /\ pc = "call"
    /\ raised' = TRUE
    /\ pc' = "raised"
    /\ UNCHANGED <<op, text, max_chunk_size, sentences_per_page, cleanVars,
                   sentences, idx, audioVars, pageVars, st_log,
                   restVars>>

\* split_text_into_chunks, lines 51-54: the try block runs to its end
SplitSegment ==
    /\ op = "split" /\ pc = "call"
    /\ chunks' = segment_text_for_audio(text, max_chunk_size)
    /\ st_log' = Append(st_log, SegmentedInfo)
    /\ pc' = "done"
    /\ UNCHANGED <<op, text, max_chunk_size, sentences_per_page, cleanVars,
                   sentences, idx, current_chunk, pageVars, raised,
                   restVars>>

\* a variant of the except branch without its st.error
SplitFallbackSilent ==
    /\ op = "split" /\ pc = "call"
    /\ raised' = TRUE
    /\ chunks' = FixedWidth(text, max_chunk_size)
    /\ pc' = "done"
    /\ UNCHANGED <<op, text, max_chunk_size, sentences_per_page, cleanVars,
                   sentences, idx, current_chunk, pageVars, st_log,
                   restVars>>

\* split_text_into_chunks, lines 55-58: segment_text_for_audio raises
SplitFallback ==
    /\ op = "split" /\ pc = "call"
    /\ raised' = TRUE
    /\ st_log' = Append(st_log, SplitError)
    /\ chunks' = FixedWidth(text, max_chunk_size)
    /\ pc' = "done"
    /\ UNCHANGED <<op, text, max_chunk_size, sentences_per_page, cleanVars,
                   sentences, idx, current_chunk, pageVars,
                   restVars>>

\* a call starts: lines 86-88 or lines 154-164
ConcCall ==
    /\ op = "concurrent"
    /\ \E c \in Calls :
          /\ frames[c].pc = "call"
          /\ frames' = StoreFrame(frames, c, FrameCall(frames[c]))
    /\ UNCHANGED notCallVars

\* a call runs one iteration of its for loop
ConcIter ==
    /\ op = "concurrent"
    /\ \E c \in Calls :
          /\ frames[c].pc = "loop"
          /\ frames[c].idx <= Len(frames[c].sentences)
          /\ frames' = StoreFrame(frames, c, FrameIter(frames[c]))
    /\ UNCHANGED notCallVars

\* a call returns
ConcReturn ==
    /\ op = "concurrent"
    /\ \E c \in Calls :
          /\ frames[c].pc = "loop"
          /\ frames[c].idx > Len(frames[c].sentences)
          /\ frames' = StoreFrame(frames, c, FrameReturn(frames[c]))
    /\ UNCHANGED notCallVars

\* convert_pdf_to_audio, lines 66-69: extraction gives no text (the PDF
\* library fails, or the text is shorter than 10 characters)
ConvertNoText ==
    /\ op = "convert" /\ pc = "call"
    /\ cleaned' = <<>>
    /\ st_log' = Append(st_log, ExtractError)
    /\ result_path' = None
    /\ pc' = "done"
    /\ UNCHANGED <<notConvertVars, max_chunk_size, raised, chunk_size,
                   tts_method, text_chunks, chunk_no, tts_calls,
                   audio_segments, combined_audio>>

\* convert_pdf_to_audio, lines 66-80: extraction, then
\* split_text_into_chunks(text) with its default chunk_size
ConvertSplit ==
    /\ op = "convert" /\ pc = "call"
    /\ ExtractedText(text) # <<>>
    /\ cleaned' = ExtractedText(text)
    /\ max_chunk_size' = DefaultChunkSize
    /\ \E fails \in BOOLEAN :
          /\ raised' = fails
          /\ text_chunks' =
                IF fails THEN FixedWidth(ExtractedText(text), DefaultChunkSize)
                ELSE segment_text_for_audio(ExtractedText(text), DefaultChunkSize)
          /\ st_log' = Append(st_log, IF fails THEN SplitError ELSE SegmentedInfo)
    /\ audio_segments' = <<>>
    /\ chunk_no' = 1
    /\ pc' = "tts"
    /\ UNCHANGED <<notConvertVars, chunk_size, tts_method, tts_calls,
                   combined_audio, result_path>>

\* convert_pdf_to_audio, one iteration of the for loop, lines 82-137
ConvertChunk ==
    /\ op = "convert" /\ pc = "tts"
    /\ chunk_no <= Len(text_chunks)
    /\ \E first \in TTSOutcomes, fallback \in TTSOutcomes :
          /\ first # "nothing" => fallback = first
          /\ tts_calls' = tts_calls \o CallsFor(tts_method, chunk_no,
                                                text_chunks[chunk_no], first)
          /\ audio_segments' = WithSegment(audio_segments, chunk_no, fallback)
          /\ st_log' = st_log \o ChunkErrors(chunk_no, fallback)
    /\ chunk_no' = chunk_no + 1
    /\ UNCHANGED <<notConvertVars, pc, cleaned, max_chunk_size, raised,
                   chunk_size, tts_method, text_chunks, combined_audio,
                   result_path>>

\* convert_pdf_to_audio, lines 139-141: no chunk gave audio
ConvertNoAudio ==
    /\ op = "convert" /\ pc = "tts"
    /\ chunk_no > Len(text_chunks)
    /\ audio_segments = <<>>
    /\ st_log' = Append(st_log, NoAudioError)
    /\ result_path' = None
    /\ pc' = "done"
    /\ UNCHANGED <<notConvertVars, cleaned, max_chunk_size, raised,
                   chunk_size, tts_method, text_chunks, chunk_no, tts_calls,
                   audio_segments, combined_audio>>

\* convert_pdf_to_audio, lines 143-167, with create_audio_file_simple: the
\* segments are combined and the export gives the file or fails
ConvertCombine ==
    /\ op = "convert" /\ pc = "tts"
    /\ chunk_no > Len(text_chunks)
    /\ audio_segments # <<>>
    /\ combined_audio' = Combined(audio_segments)
    /\ \E exported \in BOOLEAN :
          /\ result_path' = IF exported THEN "output_path" ELSE None
          /\ st_log' = IF exported THEN st_log ELSE Append(st_log, CreateError)
    /\ pc' = "done"
    /\ UNCHANGED <<notConvertVars, cleaned, max_chunk_size, raised,
                   chunk_size, tts_method, text_chunks, chunk_no, tts_calls,
                   audio_segments>>

\* "Generate Storybook", lines 767-772: the story gives no page
BookNoPages ==
    /\ op = "storybook" /\ pc = "call"
    /\ split_story_into_pages(text, sentences_per_page) = <<>>
    /\ pc' = "done"
    /\ UNCHANGED <<notBookVars, bookVars>>

\* "Generate Storybook", lines 767-803: the pages, limited by num_pages
BookPages ==
    /\ op = "storybook" /\ pc = "call"
    /\ split_story_into_pages(text, sentences_per_page) # <<>>
    /\ story_pages' =
          Limited(split_story_into_pages(text, sentences_per_page), num_pages)
    /\ image_paths' = <<>>
    /\ page_no' = 1
    /\ pc' = "images"
    /\ UNCHANGED <<notBookVars, num_pages, use_ai, story_content, pdf_path,
                   image_calls>>

\* one iteration of the image loop, lines 805-849
BookImage ==
    /\ op = "storybook" /\ pc = "images"
    /\ page_no <= Len(story_pages)
    /\ \E ai_made, placeholder_made, basic_made \in BOOLEAN :
          /\ image_paths' =
                WithImagePath(image_paths,
                              ImageFor(page_no, use_ai, ai_made,
                                       placeholder_made, basic_made))
          /\ image_calls' =
                image_calls \o ImageCalls(page_no, use_ai, ai_made,
                                          placeholder_made, basic_made)
    /\ page_no' = page_no + 1
    /\ UNCHANGED <<notBookVars, pc, num_pages, use_ai, story_pages,
                   story_content, pdf_path>>

\* lines 851-855 with create_storybook_pdf: the content is laid out and
\* doc.build writes the file, or an exception gives None
BookPdf ==
    /\ op = "storybook" /\ pc = "images"
    /\ page_no > Len(story_pages)
    /\ story_content' = StoryContent(story_pages, image_paths)
    /\ \E built \in BOOLEAN :
          pdf_path' = IF built THEN "export_path" ELSE None
    /\ pc' = "done"
    /\ UNCHANGED <<notBookVars, num_pages, use_ai, story_pages, page_no,
                   image_paths, image_calls>>

\* format_text_for_storybook(text, font_size, max_chars_per_line)
FormatCall ==
    /\ op = "format" /\ pc = "call"
    /\ formatted' = format_text_for_storybook(text, max_chars_per_line)
    /\ pc' = "done"
    /\ UNCHANGED <<op, text, max_chunk_size, sentences_per_page, cleanVars,
                   sentences, idx, audioVars, pageVars, splitVars, frames,
                   convertVars, bookVars, max_chars_per_line, aiVars,
                   renderVars>>

\* lines 65-72: the prompt is built and the retry loop is entered
AiCall ==
    /\ op = "ai" /\ pc = "call"
    /\ pc' = "attempt"
    /\ UNCHANGED <<op, text, max_chunk_size, sentences_per_page, cleanVars,
                   sentences, idx, audioVars, pageVars, splitVars, frames,
                   convertVars, bookVars, formatVars, aiVars, renderVars>>

\* one pass of the loop of lines 73-129
AiAttempt ==
    /\ op = "ai" /\ pc = "attempt"
    /\ attempt < max_retries
    /\ \E outcome \in AiOutcomes :
          LET path == TempPath(page_number, attempt + 1)
              last == ~(attempt < max_retries - 1)
          IN  /\ attempt' = attempt + 1
              /\ ai_outcomes' = Append(ai_outcomes, outcome)
              /\ ai_files' = FilesAfter(ai_files, path, outcome)
              /\ image_path' = IF outcome = "image" THEN path ELSE None
              /\ pc' = IF outcome = "image" \/ last THEN "done" ELSE "attempt"
              /\ st_log' = IF outcome # "image" /\ last
                            THEN Append(st_log, AiError(outcome))
                            ELSE st_log
    /\ UNCHANGED <<op, text, max_chunk_size, sentences_per_page, cleanVars,
                   sentences, idx, audioVars, pageVars, raised, frames,
                   convertVars, bookVars, formatVars, page_number,
                   renderVars>>

\* time passes between two renders
Tick ==
    /\ op = "render"
    /\ now < MaxTime
    /\ now' = now + 1
    /\ UNCHANGED <<op, pc, text, max_chunk_size, sentences_per_page,
                   cleanVars, sentences, idx, audioVars, pageVars, splitVars,
                   frames, convertVars, bookVars, formatVars, aiVars,
                   session_state, disk, generated, previews>>

\* a render without story text: cleanup, then line 949
RenderNoStory ==
    /\ op = "render"
    /\ disk' = DiskAfterCleanup(session_state, disk, now)
    /\ session_state' = StateAfterCleanup(session_state, now)
    /\ previews' = <<>>
    /\ UNCHANGED <<op, pc, text, max_chunk_size, sentences_per_page,
                   cleanVars, sentences, idx, audioVars, pageVars, splitVars,
                   frames, convertVars, bookVars, formatVars, aiVars,
                   now, generated>>

\* a render with story text and no button pressed (a page slider move, a
\* settings change): cleanup, then the preview of the stored storybook and
\* a new cleanup entry
RenderView ==
    /\ op = "render"
    /\ LET files == DiskAfterCleanup(session_state, disk, now)
           state == StateAfterCleanup(session_state, now)
       IN  /\ disk' = files
           /\ IF Has(state, "storybook_data")
              THEN /\ previews' = <<Preview(state["storybook_data"], files)>>
                   /\ session_state' =
                         With(state, "cleanup_files",
                              CleanupEntry(state["storybook_data"], now))
              ELSE /\ previews' = <<>>
                   /\ session_state' = state
    /\ UNCHANGED <<op, pc, text, max_chunk_size, sentences_per_page,
                   cleanVars, sentences, idx, audioVars, pageVars, splitVars,
                   frames, convertVars, bookVars, formatVars, aiVars,
                   now, generated>>

\* a render with "Generate New Storybook" pressed: cleanup, the preview,
\* then lines 691-697 delete the storybook and st.rerun() ends the script
RenderNewStorybook ==
    /\ op = "render"
    /\ LET files == DiskAfterCleanup(session_state, disk, now)
           state == StateAfterCleanup(session_state, now)
       IN  /\ Has(state, "storybook_data")
           /\ disk' = files
           /\ previews' = <<Preview(state["storybook_data"], files)>>
           /\ session_state' = Without(state, "storybook_data")
    /\ UNCHANGED <<op, pc, text, max_chunk_size, sentences_per_page,
                   cleanVars, sentences, idx, audioVars, pageVars, splitVars,
                   frames, convertVars, bookVars, formatVars, aiVars,
                   now, generated>>

\* a render with "Generate Storybook" pressed: cleanup, the preview of the
\* stored storybook if there is one, then the handler of lines 764-943
RenderGenerate ==
    /\ op = "render"
    /\ generated < MaxGenerations
    /\ generated' = generated + 1
    /\ \E with_image \in BOOLEAN, pdf_made \in BOOLEAN :
          LET files == DiskAfterCleanup(session_state, disk, now)
              state == StateAfterCleanup(session_state, now)
              old   == IF Has(state, "storybook_data")
                       THEN <<Preview(state["storybook_data"], files)>>
                       ELSE <<>>
              viewed == IF Has(state, "storybook_data")
                        THEN With(state, "cleanup_files",
                                  CleanupEntry(state["storybook_data"], now))
                        ELSE state
              data  == BookData(generated + 1, with_image)
              made  == files
                         \cup (IF with_image
                               THEN {BookImagePath(generated + 1)} ELSE {})
                         \cup (IF pdf_made
                               THEN {BookPdfPath(generated + 1)} ELSE {})
          IN  /\ disk' = made
              /\ IF pdf_made
                 THEN /\ previews' = Append(old, Preview(data, made))
                      /\ session_state' =
                            With(With(viewed, "storybook_data", data),
                                 "cleanup_files", CleanupEntry(data, now))
                 ELSE /\ previews' = old
                      /\ session_state' = viewed
    /\ UNCHANGED <<op, pc, text, max_chunk_size, sentences_per_page,
                   cleanVars, sentences, idx, audioVars, pageVars, splitVars,
                   frames, convertVars, bookVars, formatVars, aiVars, now>>

InitClean ==
    /\ op = "clean"
    /\ text \in SeqsUpTo(CleanAlphabet, MaxTextLen)
    /\ max_chunk_size = 0          \* not an argument of clean_text
    /\ sentences_per_page = 0      \* not an argument of clean_text
    /\ Idle

InitAudio ==
    /\ op = "audio"
    /\ text \in AudioTexts
    /\ max_chunk_size \in 1..MaxChunkSize
    /\ sentences_per_page = 0      \* not an argument of the audio chunker
    /\ Idle

InitPages ==
    /\ op = "pages"
    /\ text \in StoryTexts
    /\ max_chunk_size = 0          \* not an argument of the paginator
    /\ sentences_per_page \in SentencesPerPageHints
    /\ Idle

\* split_text_into_chunks(text, chunk_size); chunk_size is the
\* max_chunk_size handed to segment_text_for_audio
InitSplit ==
    /\ op = "split"
    /\ text \in AudioTexts
    /\ max_chunk_size \in 1..MaxChunkSize
    /\ sentences_per_page = 0      \* not an argument of the audio chunker
    /\ Idle

\* two calls, each of either function on its own arguments
InitConc ==
    /\ op = "concurrent"
    /\ text = <<>>
    /\ max_chunk_size = 0
    /\ sentences_per_page = 0
    /\ IdleLocals
    /\ NoConvert
    /\ NoBook
    /\ NoMore
    /\ frames \in [Calls -> ConcAudioInputs \cup ConcPagesInputs]

\* "Convert to Audiobook" with the widgets as the user has set them
InitConvert ==
    /\ op = "convert"
    /\ text \in PdfTexts
    /\ max_chunk_size = 0          \* no segmentation yet
    /\ sentences_per_page = 0
    /\ IdleLocals
    /\ NoCalls
    /\ chunk_size \in SliderChoices
    /\ tts_method \in TTSMethods
    /\ text_chunks = <<>>
    /\ chunk_no = 0
    /\ tts_calls = <<>>
    /\ audio_segments = <<>>
    /\ combined_audio = <<>>
    /\ result_path = None
    /\ NoBook
    /\ NoMore

\* "Generate Storybook" with the widgets as the user has set them
InitBook ==
    /\ op = "storybook"
    /\ text \in BookTexts
    /\ max_chunk_size = 0
    /\ sentences_per_page \in SentencesPerPageHints
    /\ IdleLocals
    /\ NoCalls
    /\ NoConvert
    /\ num_pages \in NumPagesChoices
    /\ use_ai \in BOOLEAN
    /\ story_pages = <<>>
    /\ page_no = 0
    /\ image_paths = <<>>
    /\ story_content = <<>>
    /\ pdf_path = None
    /\ image_calls = <<>>
    /\ NoMore

InitFormat ==
    /\ op = "format"
    /\ text \in FormatTexts
    /\ max_chunk_size = 0
    /\ sentences_per_page = 0
    /\ IdleLocals
    /\ NoCalls
    /\ NoConvert
    /\ NoBook
    /\ max_chars_per_line \in 1..MaxLineChars
    /\ formatted = <<>>
    /\ NoAi
    /\ NoRender

\* generate_ai_image(page_text, page_number, image_style)
InitAi ==
    /\ op = "ai"
    /\ text \in BookPalette
    /\ max_chunk_size = 0
    /\ sentences_per_page = 0
    /\ IdleLocals
    /\ NoCalls
    /\ NoConvert
    /\ NoBook
    /\ NoFormat
    /\ page_number \in 1..2
    /\ attempt = 0
    /\ ai_outcomes = <<>>
    /\ ai_files = {}
    /\ image_path = None
    /\ NoRender

\* a fresh session of the storybook page
InitRender ==
    /\ op = "render"
    /\ text = <<>>
    /\ max_chunk_size = 0
    /\ sentences_per_page = 0
    /\ IdleLocals
    /\ NoCalls
    /\ NoConvert
    /\ NoBook
    /\ NoFormat
    /\ NoAi
    /\ NoRender

NextClean == CleanCall \/ CleanAgain
NextRender ==
    Tick \/ RenderNoStory \/ RenderView \/ RenderNewStorybook \/ RenderGenerate
NextAi == AiCall \/ AiAttempt
NextFormat == FormatCall
NextBook == BookNoPages \/ BookPages \/ BookImage \/ BookPdf
NextConvert ==
    ConvertNoText \/ ConvertSplit \/ ConvertChunk \/ ConvertNoAudio
        \/ ConvertCombine
NextConc == ConcCall \/ ConcIter \/ ConcReturn
NextSplit == SplitSegment \/ SplitFallback
NextAudio == AudioCall \/ AudioIter \/ AudioReturn
NextPages == PagesCall \/ PagesIter \/ PagesReturn
\* the paginator with a sentence splitter that can fail
NextPagesFaulty == NextPages \/ PagesRaise

Init ==
    InitClean \/ InitAudio \/ InitPages \/ InitSplit \/ InitConc
        \/ InitConvert \/ InitBook \/ InitFormat \/ InitAi \/ InitRender
Next ==
    NextClean \/ NextAudio \/ NextPages \/ NextSplit \/ NextConc
        \/ NextConvert \/ NextBook \/ NextFormat \/ NextAi \/ NextRender

\* the two segmenters
InitSegment == InitAudio \/ InitPages
NextSegment == NextAudio \/ NextPages

Spec == Init /\ [][Next]_vars
SpecSegment == InitSegment /\ [][NextSegment]_vars
SpecClean == InitClean /\ [][NextClean]_vars
SpecAudio == InitAudio /\ [][NextAudio]_vars
SpecPages == InitPages /\ [][NextPages]_vars
SpecSplit == InitSplit /\ [][NextSplit]_vars
SpecPagesFaulty == InitPages /\ [][NextPagesFaulty]_vars
SpecConc == InitConc /\ [][NextConc]_vars
SpecConvert == InitConvert /\ [][NextConvert]_vars
SpecBook == InitBook /\ [][NextBook]_vars
SpecFormat == InitFormat /\ [][NextFormat]_vars
SpecRender == InitRender /\ [][NextRender]_vars
\* a pass of the loop always ends: requests.get has a timeout (line 78)
SpecAi == InitAi /\ [][NextAi]_vars /\ WF_vars(NextAi)

---------------------------------------------------------------------------
(* Vocabulary of the properties.                                           *)

\* the consecutive runs into which the cuts (positions after which a run
\* ends) divide the non-empty list sents
Runs(sents, cuts) ==
    LET ends   == cuts \cup {Len(sents)}
        nth(n) == CHOOSE e \in ends : Cardinality({x \in ends : x <= e}) = n
    IN  AsSeq([n \in 1..Cardinality(ends) |->
                  SubSeq(sents, IF n = 1 THEN 1 ELSE nth(n - 1) + 1, nth(n))])

\* every way of dividing sents into consecutive non-empty runs
Partitions(sents) ==
    IF sents = <<>> THEN {<<>>}
    ELSE {Runs(sents, cuts) : cuts \in SUBSET (1..(Len(sents) - 1))}

\* the single-space join of each run
JoinedRuns(runs) == AsSeq([n \in 1..Len(runs) |-> Join(runs[n])])

\* the sum of the lengths of the sentences of a run
RECURSIVE SumLen(_)
SumLen(run) == IF run = <<>> THEN 0 ELSE Len(run[1]) + SumLen(Tail(run))

AudioDone == op = "audio" /\ pc = "done"
PagesDone == op = "pages" /\ pc = "done"
CleanDone == op = "clean" /\ pc = "done"
SplitDone == op = "split" /\ pc = "done"
ConvertDone == op = "convert" /\ pc = "done"

---------------------------------------------------------------------------
(* C1: every chunk returned by segment_text_for_audio is at most           *)
(* max_chunk_size characters long, separators counted, unless it is one    *)
(* sentence that is longer than max_chunk_size by itself.                  *)
AudioBudget ==
    AudioDone =>
        \E runs \in Partitions(sentences) :
            /\ chunks = JoinedRuns(runs)
            /\ \A n \in 1..Len(runs) :
                  \/ Len(chunks[n]) <= max_chunk_size
                  \/ Len(runs[n]) = 1 /\ Len(runs[n][1]) > max_chunk_size

(* C2: the chunks returned by segment_text_for_audio are, in order, the    *)
(* single-space joins of consecutive non-empty runs that partition the     *)
(* sentence list; a non-empty sentence list yields at least one chunk.     *)
AudioCoverage ==
    AudioDone =>
        /\ \E runs \in Partitions(sentences) : chunks = JoinedRuns(runs)
        /\ sentences # <<>> => Len(chunks) >= 1

AudioCoverageWitness ==
    /\ AudioDone
    /\ Len(sentences) = 4
    /\ Len(chunks) = 2
    /\ chunks[1] # sentences[1]

(* C3: the pages returned by split_story_into_pages are, in order, the     *)
(* single-space joins of consecutive non-empty runs that partition the     *)
(* sentence list; a non-empty sentence list yields at least one page.      *)
PagesCoverage ==
    PagesDone =>
        /\ \E runs \in Partitions(sentences) : pages = JoinedRuns(runs)
        /\ sentences # <<>> => Len(pages) >= 1

PagesCoverageWitness ==
    /\ PagesDone
    /\ Len(sentences) = 5
    /\ Len(pages) = 3

(* C4: every page returned by split_story_into_pages holds 1 to 4          *)
(* sentences, and the page under accumulation never holds more than 4,     *)
(* also not right after the append of the next iteration.                  *)
PageSize ==
    op = "pages" =>
        /\ Len(current_page) <= 4
        /\ (pc = "loop" /\ idx <= Len(sentences))
              => Len(Append(current_page, sentences[idx])) <= 4
        /\ pc = "done" =>
              \E runs \in Partitions(sentences) :
                  /\ pages = JoinedRuns(runs)
                  /\ \A n \in 1..Len(runs) :
                        Len(runs[n]) >= 1 /\ Len(runs[n]) <= 4

PageSizeWitness ==
    /\ PagesDone
    /\ Len(sentences) = 5
    /\ Len(pages) = 2
    /\ pages[2] = sentences[5]

\* a closing rule holds of the run at its last sentence
ClosedByRule(run) ==
    \/ Len(run) = 4
    \/ Len(run) >= 2 /\ SumLen(run) > 300
    \/ Len(run) = 3 /\ SumLen(run) > 200 /\ HasMarker(run[Len(run)])

(* C5: every page but the last of the output was closed by a rule (4       *)
(* sentences; at least 2 sentences and cumulative length > 300; 3          *)
(* sentences, cumulative length > 200 and a discourse marker in the last   *)
(* one), and so holds 2 to 4 sentences.                                    *)
NonFinalPagesClosedByRule ==
    PagesDone =>
        \E runs \in Partitions(sentences) :
            /\ pages = JoinedRuns(runs)
            /\ \A n \in 1..(Len(runs) - 1) :
                  /\ ClosedByRule(runs[n])
                  /\ Len(runs[n]) >= 2 /\ Len(runs[n]) <= 4

\* a page closed by the marker rule, then a last page of one sentence
NonFinalPagesClosedByRuleWitness ==
    /\ PagesDone
    /\ Len(pages) = 2
    /\ \E runs \in Partitions(sentences) :
          /\ pages = JoinedRuns(runs)
          /\ Len(runs[1]) = 3 /\ SumLen(runs[1]) <= 300
          /\ Len(runs[2]) = 1

(* C6: clean_text is idempotent: clean_text(clean_text(x)) = clean_text(x) *)
CleanIdempotent == CleanDone => recleaned = cleaned

(* C7: on the empty text segment_text_for_audio returns the empty list for *)
(* every budget and split_story_into_pages returns the empty list for      *)
(* every hint, and both return.                                            *)
EmptyInput ==
    text = <<>> =>
        /\ chunks = <<>>
        /\ pages = <<>>
        /\ pc \in {"call", "loop", "done"}
        /\ pc # "done" => ENABLED NextSegment

EmptyInputWitness == text = <<>> /\ pc = "done"

(* C8: a sentence longer than max_chunk_size is a chunk of its own,        *)
(* whether it comes first, in the middle or last, and that chunk exceeds   *)
(* the budget.                                                             *)
SingleSentenceOverflow ==
    AudioDone =>
        \E runs \in Partitions(sentences) :
            /\ chunks = JoinedRuns(runs)
            /\ \A n \in 1..Len(runs) :
                  (\E m \in 1..Len(runs[n]) : Len(runs[n][m]) > max_chunk_size)
                      => /\ Len(runs[n]) = 1
                         /\ Len(chunks[n]) > max_chunk_size

\* only the middle sentence of three exceeds the budget
SingleSentenceOverflowWitness ==
    /\ AudioDone
    /\ Len(sentences) = 3
    /\ Len(sentences[1]) <= max_chunk_size
    /\ Len(sentences[2]) > max_chunk_size
    /\ Len(sentences[3]) <= max_chunk_size
    /\ Len(sentences[1]) + Len(sentences[3]) < max_chunk_size

(* C9: split_story_into_pages returns the same pages whatever the value of *)
(* sentences_per_page.                                                     *)
HintIndependence ==
    PagesDone =>
        \A hint \in SentencesPerPageHints :
            split_story_into_pages(text, hint) = pages

HintIndependenceWitness ==
    /\ PagesDone
    /\ sentences_per_page = 2
    /\ Len(sentences) = 5
    /\ Len(pages) = 2

(* C10: the text clean_text returns holds no two consecutive whitespace    *)
(* characters.                                                             *)
CleanNoWhitespaceRun ==
    (op = "clean" /\ pc \in {"cleaned", "done"}) =>
        \A k \in 1..(Len(cleaned) - 1) :
            ~(IsSpace(cleaned[k]) /\ IsSpace(cleaned[k + 1]))

(* C11: every character of the text clean_text returns is alphanumeric,    *)
(* whitespace or one of . , ! ? ; : ( ) ' " - ; the underscore is removed. *)
CleanOnlyListedChars ==
    (op = "clean" /\ pc \in {"cleaned", "done"}) =>
        \A k \in 1..Len(cleaned) :
            cleaned[k] \in Upper \cup Lower \cup Digit \cup SpaceChars
                \cup {".", ",", "!", "?", ";", ":", "(", ")", "'", "\"", "-"}

(* C12: clean_text returns for every text; for the empty and for a         *)
(* whitespace-only text it returns the empty string, and no result starts  *)
(* or ends with whitespace.                                                *)
CleanTotal ==
    op = "clean" =>
        /\ pc = "call" => clean_text(text) \in Seq(CleanAlphabet \cup SpaceChars)
        /\ pc \in {"cleaned", "done"} =>
              /\ (\A k \in 1..Len(text) : IsSpace(text[k])) => cleaned = <<>>
              /\ cleaned # <<>> =>
                    ~IsSpace(cleaned[1]) /\ ~IsSpace(cleaned[Len(cleaned)])

\* a text that ends with whitespace and is not whitespace only
CleanTotalWitness ==
    /\ op = "clean" /\ pc = "cleaned"
    /\ Len(text) = 3
    /\ IsSpace(text[3])
    /\ cleaned # <<>>

(* C19: a chunk is closed before sentence s exactly when the current chunk  *)
(* is non-empty and len(current_chunk) + len(s) > max_chunk_size, and s is  *)
(* appended to the current chunk otherwise; so for consecutive chunks c, d: *)
(* len(c) + len(first sentence of d) > max_chunk_size.                      *)
ClosesBefore(s) ==
    current_chunk # <<>> /\ Len(current_chunk) + Len(s) > max_chunk_size

GreedyStep ==
    (op = "audio" /\ pc = "loop" /\ idx' = idx + 1) =>
        LET s == sentences[idx]
        IN  IF ClosesBefore(s)
            THEN /\ chunks' = Append(chunks, current_chunk)
                 /\ current_chunk' = s
            ELSE /\ chunks' = chunks
                 /\ current_chunk' = IF current_chunk = <<>> THEN s
                                     ELSE current_chunk \o <<" ">> \o s

GreedyChunks ==
    AudioDone =>
        \E runs \in Partitions(sentences) :
            /\ chunks = JoinedRuns(runs)
            /\ \A n \in 1..(Len(runs) - 1) :
                  Len(chunks[n]) + Len(runs[n + 1][1]) > max_chunk_size

GreedyClosing == [][GreedyStep]_vars /\ []GreedyChunks

\* a chunk of two sentences closed by a third that would still fit without
\* the first, followed by a chunk of its own
GreedyClosingWitness ==
    /\ AudioDone
    /\ Len(sentences) = 3 /\ Len(chunks) = 2
    /\ chunks[1] = sentences[1] \o <<" ">> \o sentences[2]
    /\ chunks[2] = sentences[3]
    /\ Len(sentences[3]) <= max_chunk_size

(* C20: when every 4 consecutive sentences total at most 200 characters,   *)
(* n >= 1 sentences yield exactly ceil(n / 4) pages: all but the last hold *)
(* 4 sentences, the last the remaining 1 to 4.                             *)
ShortWindows ==
    \A k \in 1..Len(sentences) :
        SumLen(SubSeq(sentences, k, Min(k + PageSentenceLimit - 1, Len(sentences))))
            <= PageBreakLength

ForcedByCount ==
    (PagesDone /\ ShortWindows /\ Len(sentences) >= 1) =>
        /\ Len(pages) = (Len(sentences) + PageSentenceLimit - 1) \div PageSentenceLimit
        /\ \A j \in 1..Len(pages) :
              pages[j] = Join(SubSeq(sentences, PageSentenceLimit * (j - 1) + 1,
                                     Min(PageSentenceLimit * j, Len(sentences))))

\* five short sentences, one of them with a discourse marker: 4 + 1
ForcedByCountWitness ==
    /\ PagesDone /\ ShortWindows
    /\ Len(sentences) = 5
    /\ Len(pages) = 2
    /\ \E k \in 1..5 : HasMarker(sentences[k])

(* C13: when sentence chunking raises, split_text_into_chunks returns      *)
(* fixed-width slices of chunk_size (>= 1): each window is at most          *)
(* chunk_size long, all but the last exactly chunk_size, and their          *)
(* concatenation is the text.                                               *)
FallbackSlices ==
    (SplitDone /\ raised) =>
        /\ \A k \in 1..Len(chunks) : Len(chunks[k]) <= max_chunk_size
        /\ \A k \in 1..(Len(chunks) - 1) : Len(chunks[k]) = max_chunk_size
        /\ JoinWith(chunks, <<>>) = text

\* several windows, the last one shorter than chunk_size
FallbackSlicesWitness ==
    /\ SplitDone /\ raised
    /\ Len(chunks) >= 3
    /\ Len(chunks[Len(chunks)]) < max_chunk_size

ResultOf(f) == IF f.fn = "audio" THEN f.chunks ELSE f.pages

AloneResult(f) ==
    IF f.fn = "audio" THEN segment_text_for_audio(f.text, f.arg)
    ELSE split_story_into_pages(f.text, f.arg)

SameCall(f, g) == f.fn = g.fn /\ f.text = g.text /\ f.arg = g.arg

ConcurrentIsolation ==
    op = "concurrent" =>
        /\ \A c \in Calls :
              frames[c].pc = "done" => ResultOf(frames[c]) = AloneResult(frames[c])
        /\ \A c, d \in Calls :
              (frames[c].pc = "done" /\ frames[d].pc = "done"
                  /\ SameCall(frames[c], frames[d])) =>
                      ResultOf(frames[c]) = ResultOf(frames[d])

\* a call has returned several chunks while a call of the paginator, with one
\* page closed, holds sentences of the next page
ConcurrentIsolationWitness ==
    /\ op = "concurrent"
    /\ frames[1].fn = "audio" /\ frames[1].pc = "done"
    /\ Len(frames[1].chunks) >= 2
    /\ frames[2].fn = "pages" /\ frames[2].pc = "loop"
    /\ Len(frames[2].pages) = 1 /\ frames[2].current_page # <<>>

(* C16: in convert_pdf_to_audio every TTS call gets one chunk alone, the   *)
(* audio segments are combined in chunk order (for chunks i < j that both  *)
(* gave audio, the audio of i precedes the audio of j) and no segment is   *)
(* included twice.                                                         *)
\* the chunks that gave audio
GaveAudio == {audio_segments[k][1] : k \in 1..Len(audio_segments)}

CombinedInChunkOrder ==
    op = "convert" =>
        /\ \A k \in 1..Len(tts_calls) :
              /\ tts_calls[k].chunk_no \in 1..Len(text_chunks)
              /\ tts_calls[k].text = text_chunks[tts_calls[k].chunk_no]
        /\ (pc = "done" /\ audio_segments # <<>>) =>
              /\ {combined_audio[k] : k \in 1..Len(combined_audio)} = GaveAudio
              /\ \A a, b \in 1..Len(combined_audio) :
                    a < b => combined_audio[a] < combined_audio[b]

\* three chunks of which the second gave no audio, and the file written
CombinedInChunkOrderWitness ==
    /\ ConvertDone
    /\ Len(text_chunks) = 3
    /\ GaveAudio = {1, 3}
    /\ result_path # None

(* C18: the value of the "Text chunk size (characters)" slider is the      *)
(* max_chunk_size with which the extracted text is segmented when          *)
(* "Convert to Audiobook" runs convert_pdf_to_audio.                       *)
SliderIsChunkSize ==
    (op = "convert" /\ pc \in {"tts", "done"} /\ text_chunks # <<>>) =>
        /\ max_chunk_size = chunk_size
        /\ ~raised => text_chunks = segment_text_for_audio(cleaned, chunk_size)

(* C17: after the image loop image_paths has one entry, a path or None,    *)
(* per story page, entry i being that of page i; create_storybook_pdf      *)
(* emits the text of every page in order, each right after its own page's  *)
(* image when there is one, and a page without image still has its text.   *)
\* the positions of the text flowables in story_content
TextPositions ==
    SelectSeq(AsSeq([k \in 1..Len(story_content) |-> k]),
              LAMBDA k : story_content[k].kind = "text")

\* the images a generator can have written for page i
PathsOfPage(i) ==
    {ImagePath(g, i) : g \in {"ai_generated", "placeholder", "basic_fallback"}}

StorybookPairing ==
    op = "storybook" =>
        /\ pc = "images" =>
              /\ Len(image_paths) = page_no - 1
              /\ page_no <= Len(story_pages) + 1
        /\ (pc = "done" /\ story_pages # <<>>) =>
              /\ Len(image_paths) = Len(story_pages)
              /\ \A i \in 1..Len(image_paths) :
                    image_paths[i] = None \/ image_paths[i] \in PathsOfPage(i)
              /\ Len(TextPositions) = Len(story_pages)
              /\ \A i \in 1..Len(TextPositions) :
                    LET at == TextPositions[i]
                    IN  /\ Words(story_content[at].text) = Words(story_pages[i])
                        /\ IF image_paths[i] # None
                           THEN story_content[at - 2] = ImageFlowable(image_paths[i])
                           ELSE story_content[at - 2].kind # "image"
              /\ Cardinality({k \in 1..Len(story_content) :
                                 story_content[k].kind = "image"})
                    = Cardinality({i \in 1..Len(image_paths) :
                                      image_paths[i] # None})

\* two pages, the first without image, the second with one, and the PDF built
StorybookPairingWitness ==
    /\ op = "storybook" /\ pc = "done"
    /\ Len(story_pages) = 2
    /\ Len(image_paths) = 2
    /\ image_paths[1] = None /\ image_paths[2] # None
    /\ pdf_path # None

(* C21: right after a sentence is appended, a page of at least 2 sentences *)
(* whose cumulative length exceeds 300 is closed, so no page with >= 2     *)
(* sentences and length > 300 ever gets a further sentence; a single       *)
(* sentence longer than 300 does not close its page before a second        *)
(* sentence is appended.                                                   *)
LengthCloseStep ==
    (op = "pages" /\ pc = "loop" /\ idx' = idx + 1) =>
        LET page   == Append(current_page, sentences[idx])
            length == SumLen(page)
        IN  /\ (Len(page) >= 2 /\ length > 300) =>
                  /\ pages' = Append(pages, Join(page))
                  /\ current_page' = <<>>
            /\ Len(page) = 1 =>
                  /\ pages' = pages
                  /\ current_page' = page

NoLongOpenPage ==
    op = "pages" => ~(Len(current_page) >= 2 /\ SumLen(current_page) > 300)

LengthClose == [][LengthCloseStep]_vars /\ []NoLongOpenPage

\* a page closed by its length at 2 sentences, and then a single sentence of
\* more than 300 characters on an open page
LengthCloseWitness ==
    /\ op = "pages" /\ pc = "loop"
    /\ idx = 4
    /\ Len(pages) = 1
    /\ pages[1] = Join(SubSeq(sentences, 1, 2))
    /\ current_page = <<sentences[3]>>
    /\ Len(sentences[3]) > 300

(* C22: when appending a sentence gives the page exactly 3 sentences with  *)
(* cumulative length > 200 and <= 300, the page is closed if and only if   *)
(* the lowercased sentence just appended contains one of the markers as a  *)
(* substring, also inside a longer word; a marker in an earlier sentence   *)
(* of the page only does not close it.                                     *)
MarkerWords ==
    { <<"b", "u", "t">>, <<"h", "o", "w", "e", "v", "e", "r">>,
      <<"t", "h", "e", "n">>, <<"s", "o">>, <<"a", "n", "d">>, <<"o", "r">>,
      <<"f", "i", "n", "a", "l", "l", "y">>,
      <<"s", "u", "d", "d", "e", "n", "l", "y">> }

\* w occurs in s at some position
Occurs(w, s) ==
    \E k \in 0..(Len(s) - Len(w)) : SubSeq(s, k + 1, k + Len(w)) = w

MarkerCloseStep ==
    (op = "pages" /\ pc = "loop" /\ idx' = idx + 1) =>
        LET page   == Append(current_page, sentences[idx])
            length == SumLen(page)
            marked == \E w \in MarkerWords : Occurs(w, ToLower(sentences[idx]))
        IN  (Len(page) = 3 /\ length > 200 /\ length <= 300) =>
                IF marked
                THEN pages' = Append(pages, Join(page)) /\ current_page' = <<>>
                ELSE pages' = pages /\ current_page' = page

MarkerClose == [][MarkerCloseStep]_vars

\* a page closed at 3 sentences of 201 to 300 characters by "so" inside
\* "also"
MarkerCloseWitness ==
    /\ op = "pages" /\ pc = "loop"
    /\ idx = 4
    /\ Len(pages) = 1
    /\ current_page = <<>>
    /\ SumLen(SubSeq(sentences, 1, 3)) > 200
    /\ SumLen(SubSeq(sentences, 1, 3)) <= 300
    /\ Occurs(<<"a", "l", "s", "o">>, ToLower(sentences[3]))

(* C23: the sentences left after the last sentence are emitted as one      *)
(* final page whatever its size, also a single sentence; an input on which *)
(* no closing condition fires gives exactly one page with all its          *)
(* sentences, and no page is empty.                                        *)
FinalPage ==
    PagesDone =>
        /\ \A k \in 1..Len(pages) : pages[k] # <<>>
        /\ current_page # <<>> =>
              pages # <<>> /\ pages[Len(pages)] = Join(current_page)
        /\ Len(sentences) = 1 => pages = <<sentences[1]>>
        /\ (sentences # <<>> /\ Len(sentences) <= 3 /\ SumLen(sentences) <= 200)
              => pages = <<Join(sentences)>>

\* a page of 4 sentences and a final page of the one sentence left
FinalPageWitness ==
    /\ PagesDone
    /\ Len(sentences) = 5
    /\ Len(pages) = 2
    /\ Len(current_page) = 1
    /\ pages[2] = sentences[5]

(* C26: the length compared with 300 and 200 is the sum of the lengths of  *)
(* the page's sentences, without the separating spaces, and is reset to 0  *)
(* with the sentence list on every close; a page kept open with k >= 2     *)
(* sentences has a sum <= 300 while its joined text has k - 1 characters   *)
(* more.                                                                   *)
LengthWithoutSeparators ==
    (op = "pages" /\ pc \in {"loop", "done"}) =>
        /\ current_length = SumLen(current_page)
        /\ current_page = <<>> => current_length = 0
        /\ Len(current_page) >= 2 =>
              /\ current_length <= 300
              /\ Len(Join(current_page)) = current_length + Len(current_page) - 1

\* an open page of 3 sentences whose joined text is longer than 300
LengthWithoutSeparatorsWitness ==
    /\ op = "pages" /\ pc = "loop"
    /\ Len(current_page) = 3
    /\ current_length <= 300
    /\ Len(Join(current_page)) > 300

(* C24: split_text_into_chunks shows its error message "Error splitting    *)
(* text into chunks" exactly on the calls that return the fixed-width      *)
(* fallback, never on a call whose sentence chunking succeeded.            *)
ErrorShown == \E k \in 1..Len(st_log) : st_log[k] = SplitError

DegradedModeVisible ==
    SplitDone =>
        /\ ErrorShown <=> raised
        /\ ErrorShown => chunks = FixedWidth(text, max_chunk_size)
        /\ ~ErrorShown =>
              /\ chunks = segment_text_for_audio(text, max_chunk_size)
              /\ st_log = <<SegmentedInfo>>

\* a fallback result that differs from the sentence chunks of the text
DegradedModeVisibleWitness ==
    /\ SplitDone /\ raised
    /\ st_log = <<SplitError>>
    /\ chunks # segment_text_for_audio(text, max_chunk_size)

(* C25: every line format_text_for_storybook produces has at most          *)
(* max_chars_per_line characters unless it is a single word longer than    *)
(* the limit; the words of the lines, read in order, are the words of the  *)
(* text; several words whose single-space join is longer than the limit    *)
(* give at least two lines.                                                *)
\* s.split("\n")
LinesOf(s) ==
    LET at     == AsSeq([k \in 1..(Len(s) + 1) |-> k])
        breaks == SelectSeq(at, LAMBDA k : k = Len(s) + 1 \/ s[k] = "\n")
    IN  AsSeq([n \in 1..Len(breaks) |->
                  SubSeq(s, IF n = 1 THEN 1 ELSE breaks[n - 1] + 1,
                         breaks[n] - 1)])

FormatDone == op = "format" /\ pc = "done"

LineWrapping ==
    FormatDone =>
        LET lines == LinesOf(formatted)
            words == Words(text)
        IN  /\ \A k \in 1..Len(lines) :
                  \/ Len(lines[k]) <= max_chars_per_line
                  \/ Words(lines[k]) = <<lines[k]>>
            /\ JoinWith(AsSeq([k \in 1..Len(lines) |-> Words(lines[k])]), <<>>)
                  = words
            /\ (Len(words) >= 2 /\ Len(Join(words)) > max_chars_per_line) =>
                  Len(lines) >= 2

\* a line of two words and a line of one word longer than the limit
LineWrappingWitness ==
    /\ FormatDone
    /\ Len(LinesOf(formatted)) = 2
    /\ Len(Words(LinesOf(formatted)[1])) = 2
    /\ Len(LinesOf(formatted)[2]) > max_chars_per_line

(* C28: generate_ai_image ends after at most 3 HTTP attempts; an attempt   *)
(* is followed by another only if it failed (status, timeout, unusable     *)
(* image, other exception) and fewer than 3 attempts were made; the call   *)
(* returns the path of an image that passed verification, or None; the     *)
(* file written by a failed verification is gone before the next attempt   *)
(* and before the return.                                                  *)
AiDone == op = "ai" /\ pc = "done"

AiRetrySafe ==
    op = "ai" =>
        /\ attempt <= max_retries
        /\ Len(ai_outcomes) = attempt
        /\ \A k \in 1..(attempt - 1) : ai_outcomes[k] # "image"
        /\ pc = "attempt" => attempt < max_retries
        /\ \A k \in 1..attempt :
              ai_outcomes[k] = "invalid image" =>
                  TempPath(page_number, k) \notin ai_files
        /\ AiDone =>
              \/ image_path = None /\ ai_outcomes[attempt] # "image"
              \/ /\ image_path = TempPath(page_number, attempt)
                 /\ ai_outcomes[attempt] = "image"
                 /\ image_path \in ai_files

AiRetryTerminates == []AiRetrySafe /\ <>AiDone

\* three attempts, the last of them with an image that fails verification
AiRetryWitness ==
    /\ AiDone
    /\ ai_outcomes = <<"timeout", "status", "invalid image">>
    /\ image_path = None
    /\ ai_files = {}

(* C27: convert_pdf_to_audio returns a file path only if some chunk gave   *)
(* a usable segment and the export succeeded; it returns None when the     *)
(* extraction fails, when every chunk fails and when the file creation     *)
(* fails.  A chunk for which the selected method and the one pyttsx3       *)
(* fallback call give nothing is skipped with an error message: the        *)
(* combined audio holds one segment per successful chunk, in order, and    *)
(* none for a failed chunk.                                                *)
Logged(r) == \E k \in 1..Len(st_log) : st_log[k] = r

\* the chunks already processed that were skipped with an error message
Skipped(n) == \E outcome \in TTSOutcomes :
    /\ ChunkErrors(n, outcome) # <<>>
    /\ Logged(ChunkErrors(n, outcome)[1])

CallsOfChunk(n) == SelectSeq(tts_calls, LAMBDA c : c.chunk_no = n)

SkippedChunks ==
    op = "convert" =>
        /\ ConvertDone =>
              /\ result_path # None =>
                    /\ audio_segments # <<>>
                    /\ ~Logged(CreateError)
                    /\ combined_audio = JoinWith(audio_segments, <<>>)
              /\ cleaned = <<>> => result_path = None
              /\ audio_segments = <<>> => result_path = None
              /\ Logged(CreateError) => result_path = None
        /\ pc \in {"tts", "done"} =>
              /\ audio_segments =
                    LET done == AsSeq([n \in 1..(chunk_no - 1) |-> n])
                        good == SelectSeq(done, LAMBDA n : ~Skipped(n))
                    IN  AsSeq([k \in 1..Len(good) |-> <<good[k]>>])
              /\ \A n \in 1..(chunk_no - 1) :
                    Logged(ChunkErrors(n, "nothing")[1]) =>
                        /\ Len(CallsOfChunk(n)) = 2
                        /\ CallsOfChunk(n)[2].engine
                              = "text_to_speech_enhanced_pyttsx3"

\* three chunks, the second skipped for want of audio, and a file returned
SkippedChunksWitness ==
    /\ ConvertDone
    /\ result_path # None
    /\ Len(text_chunks) = 3
    /\ Logged(ChunkErrors(2, "nothing")[1])
    /\ combined_audio = <<1, 3>>

(* C29: whenever the preview of the storybook_data of the session state    *)
(* is rendered, the PDF and the image files it names have not been         *)
(* deleted by the cleanup step.                                            *)
PreviewFilesKept ==
    op = "render" =>
        \A k \in 1..Len(previews) :
            FilesOf(previews[k]) \subseteq previews[k].existing

(* C30: for every story page the AI generation is called first when it is  *)
(* enabled; the placeholder is generated only if the AI generation is      *)
(* disabled or gave no existing file; the basic fallback image is created  *)
(* only if the placeholder generation gave no existing file; None is       *)
(* recorded only after every enabled stage failed; and the pages after a   *)
(* failed page are processed all the same.                                 *)
CallsOfPage(n) == SelectSeq(image_calls, LAMBDA c : c.page = n)

StageOrder(n) ==
    LET calls == CallsOfPage(n)
        stage(k) == calls[k].generator
    IN  /\ calls # <<>>
        /\ use_ai <=> stage(1) = "generate_ai_image"
        /\ \A k \in 1..Len(calls) :
              /\ stage(k) = "generate_ai_image" => k = 1
              /\ stage(k) = "generate_placeholder_image" =>
                    \/ k = 1 /\ ~use_ai
                    \/ k = 2 /\ stage(1) = "generate_ai_image"
                             /\ ~calls[1].made
              /\ stage(k) = "_create_basic_fallback_image" =>
                    /\ k > 1
                    /\ stage(k - 1) = "generate_placeholder_image"
                    /\ ~calls[k - 1].made
        /\ image_paths[n] = None =>
              /\ \A k \in 1..Len(calls) : ~calls[k].made
              /\ stage(Len(calls)) = "_create_basic_fallback_image"
        /\ image_paths[n] # None => calls[Len(calls)].made

FallbackChain ==
    (op = "storybook" /\ pc \in {"images", "done"} /\ story_pages # <<>>) =>
        /\ Len(image_paths) = page_no - 1
        /\ \A n \in 1..(page_no - 1) : StageOrder(n)
        /\ \A k \in 1..(Len(image_calls) - 1) :
              image_calls[k].page <= image_calls[k + 1].page
        /\ pc = "done" => page_no - 1 = Len(story_pages)

\* a first page for which the three stages fail, then a page with an AI image
FallbackChainWitness ==
    /\ op = "storybook" /\ pc = "done"
    /\ use_ai
    /\ Len(story_pages) = 2
    /\ image_paths = <<None, ImagePath("ai_generated", 2)>>
    /\ Len(CallsOfPage(1)) = 3
    /\ Len(CallsOfPage(2)) = 1

=============================================================================
